---- MODULE Spec2Model ----
(***************************************************************************)
(* Model of the server configuration loader (src/server/config.js).        *)
(*                                                                         *)
(* Strings are sequences of one-character strings, so that trimming,       *)
(* prefix tests, integer parsing, path normalisation and URL               *)
(* canonicalisation are computed character by character, as the code and   *)
(* the runtime library compute them.                                        *)
(***************************************************************************)
EXTENDS Integers, Sequences, FiniteSets, TLC

(***************************************************************************)
(* Bounds of the model.                                                    *)
(***************************************************************************)
MaxPathLen == 4
MaxIntLen == 2
MaxUrlTailLen == 2
MaxEnvChanges == 1
MaxReads == 2

(***************************************************************************)
(* JavaScript values that are not strings or numbers.                      *)
(***************************************************************************)
Undefined == <<"<undefined>">>
Null == <<"<null>">>

(***************************************************************************)
(* String primitives.                                                      *)
(***************************************************************************)
Digits == <<"0", "1", "2", "3", "4", "5", "6", "7", "8", "9">>

IsDigit(c) == \E i \in 1..10 : Digits[i] = c

DigitVal(c) == (CHOOSE i \in 1..10 : Digits[i] = c) - 1

IsWhite(c) == c = " "

RECURSIVE TrimStart(_)
TrimStart(s) ==
  IF s # <<>> /\ IsWhite(Head(s)) THEN TrimStart(Tail(s)) ELSE s

RECURSIVE TrimEnd(_)
TrimEnd(s) ==
  IF s # <<>> /\ IsWhite(s[Len(s)]) THEN TrimEnd(SubSeq(s, 1, Len(s) - 1)) ELSE s

\* String.prototype.trim
Trim(s) == TrimEnd(TrimStart(s))

\* String.prototype.startsWith
StartsWith(s, p) == Len(s) >= Len(p) /\ SubSeq(s, 1, Len(p)) = p

EndsWith(s, p) == Len(s) >= Len(p) /\ SubSeq(s, Len(s) - Len(p) + 1, Len(s)) = p

\* value.replace(/\/$/, ''): removes one trailing slash, if there is one
StripOneTrailingSlash(s) ==
  IF s # <<>> /\ s[Len(s)] = "/" THEN SubSeq(s, 1, Len(s) - 1) ELSE s

\* String(n) for an integer n
RECURSIVE NatToString(_)
NatToString(n) ==
  IF n < 10 THEN <<Digits[n + 1]>>
  ELSE NatToString(n \div 10) \o <<Digits[(n % 10) + 1]>>

NumberToString(n) == IF n < 0 THEN <<"-">> \o NatToString(-n) ELSE NatToString(n)

\* the leading run of decimal digits of s
RECURSIVE DigitPrefix(_)
DigitPrefix(s) ==
  IF s # <<>> /\ IsDigit(Head(s)) THEN <<Head(s)>> \o DigitPrefix(Tail(s)) ELSE <<>>

RECURSIVE DigitsValue(_, _)
DigitsValue(s, acc) ==
  IF s = <<>> THEN acc ELSE DigitsValue(Tail(s), acc * 10 + DigitVal(Head(s)))

\* Number.parseInt(value, 10): skips leading white space, takes an optional
\* sign and the longest run of digits, ignores whatever follows; NaN if
\* there is no digit.
NumberParseInt(value) ==
  LET t == TrimStart(value)
      neg == t # <<>> /\ Head(t) = "-"
      signed == t # <<>> /\ Head(t) \in {"-", "+"}
      body == IF signed THEN Tail(t) ELSE t
      ds == DigitPrefix(body)
  IN IF ds = <<>> THEN [finite |-> FALSE, n |-> 0]
     ELSE [finite |-> TRUE,
           n |-> IF neg THEN 0 - DigitsValue(ds, 0) ELSE DigitsValue(ds, 0)]

\* the segments of s between the separator characters
RECURSIVE Split(_, _)
Split(s, sep) ==
  IF \A i \in 1..Len(s) : s[i] # sep THEN <<s>>
  ELSE LET i == CHOOSE j \in 1..Len(s) :
                  s[j] = sep /\ \A k \in 1..(j - 1) : s[k] # sep
       IN <<SubSeq(s, 1, i - 1)>> \o Split(SubSeq(s, i + 1, Len(s)), sep)

RECURSIVE JoinWith(_, _)
JoinWith(segs, sep) ==
  IF segs = <<>> THEN <<>>
  ELSE IF Len(segs) = 1 THEN segs[1]
  ELSE segs[1] \o <<sep>> \o JoinWith(Tail(segs), sep)

(***************************************************************************)
(* Outcomes of a call: a returned value or a thrown error.                 *)
(***************************************************************************)
Return(v) == [threw |-> FALSE, value |-> v, kind |-> "none"]

Throw(k) == [threw |-> TRUE, value |-> Undefined, kind |-> k]

(***************************************************************************)
(* Names of the environment variables.                                     *)
(***************************************************************************)
PublicPrefix == <<"P", "U", "B", "L", "I", "C", "_">>

WORLD == <<"W", "O", "R", "L", "D">>
PORT == <<"P", "O", "R", "T">>
SAVE_INTERVAL == <<"S", "A", "V", "E", "_", "I", "N", "T", "E", "R", "V", "A", "L">>
JWT_SECRET == <<"J", "W", "T", "_", "S", "E", "C", "R", "E", "T">>
PUBLIC_ASSETS_URL == PublicPrefix \o <<"A", "S", "S", "E", "T", "S", "_", "U", "R", "L">>
PUBLIC_API_URL == PublicPrefix \o <<"A", "P", "I", "_", "U", "R", "L">>
PUBLIC_WS_URL == PublicPrefix \o <<"W", "S", "_", "U", "R", "L">>
PUBLIC_MAX_UPLOAD_SIZE ==
  PublicPrefix \o <<"M", "A", "X", "_", "U", "P", "L", "O", "A", "D", "_", "S", "I", "Z", "E">>
ADMIN_CODE == <<"A", "D", "M", "I", "N", "_", "C", "O", "D", "E">>
COMMIT_HASH == <<"C", "O", "M", "M", "I", "T", "_", "H", "A", "S", "H">>
LIVEKIT_WS_URL == <<"L", "I", "V", "E", "K", "I", "T", "_", "W", "S", "_", "U", "R", "L">>
LIVEKIT_API_KEY == <<"L", "I", "V", "E", "K", "I", "T", "_", "A", "P", "I", "_", "K", "E", "Y">>
LIVEKIT_API_SECRET ==
  <<"L", "I", "V", "E", "K", "I", "T", "_", "A", "P", "I", "_", "S", "E", "C", "R", "E", "T">>

(***************************************************************************)
(* readEnv.  An environment is a function from the names that are set to   *)
(* their raw strings; a name outside its domain is an unset variable.      *)
(***************************************************************************)
NoDefault == [has |-> FALSE, value |-> Undefined]

Default(v) == [has |-> TRUE, value |-> v]

\* the branch shared by "unset" and "blank": default, else throw, else undefined
ReadEnvFallback(required, defaultValue, kind) ==
  IF defaultValue.has THEN Return(defaultValue.value)
  ELSE IF required THEN Throw(kind)
  ELSE Return(Undefined)

readEnv(e, key, required, defaultValue, allowEmpty) ==
  IF key \notin DOMAIN e THEN ReadEnvFallback(required, defaultValue, "is required")
  ELSE LET value == Trim(e[key])
       IN IF ~allowEmpty /\ Len(value) = 0
          THEN ReadEnvFallback(required, defaultValue, "cannot be empty")
          ELSE Return(value)

(***************************************************************************)
(* node:path, POSIX flavour.                                               *)
(***************************************************************************)
DotDot == <<".", ".">>

\* path.isAbsolute
IsAbsolute(p) == p # <<>> /\ Head(p) = "/"

\* normalizeString: drops empty and "." segments; ".." removes the segment
\* before it, or is kept when there is none to remove and the path is relative
RECURSIVE NormalizeSegments(_, _, _)
NormalizeSegments(segs, res, allowAboveRoot) ==
  IF segs = <<>> THEN res
  ELSE LET seg == Head(segs)
           rest == Tail(segs)
       IN IF seg = <<>> \/ seg = <<".">>
          THEN NormalizeSegments(rest, res, allowAboveRoot)
          ELSE IF seg = DotDot
          THEN IF res # <<>> /\ res[Len(res)] # DotDot
               THEN NormalizeSegments(rest, SubSeq(res, 1, Len(res) - 1), allowAboveRoot)
               ELSE IF allowAboveRoot
               THEN NormalizeSegments(rest, Append(res, DotDot), allowAboveRoot)
               ELSE NormalizeSegments(rest, res, allowAboveRoot)
          ELSE NormalizeSegments(rest, Append(res, seg), allowAboveRoot)

\* path.normalize
PathNormalize(p) ==
  IF Len(p) = 0 THEN <<".">>
  ELSE LET isAbsolute == Head(p) = "/"
           trailingSeparator == p[Len(p)] = "/"
           body == JoinWith(NormalizeSegments(Split(p, "/"), <<>>, ~isAbsolute), "/")
       IN IF Len(body) = 0
          THEN IF isAbsolute THEN <<"/">>
               ELSE IF trailingSeparator THEN <<".", "/">> ELSE <<".">>
          ELSE LET withSep == IF trailingSeparator THEN body \o <<"/">> ELSE body
               IN IF isAbsolute THEN <<"/">> \o withSep ELSE withSep

\* path.join of two parts
PathJoin(a, b) ==
  IF Len(a) = 0 /\ Len(b) = 0 THEN <<".">>
  ELSE IF Len(a) = 0 THEN PathNormalize(b)
  ELSE IF Len(b) = 0 THEN PathNormalize(a)
  ELSE PathNormalize(a \o <<"/">> \o b)

ensureRelativePath(value) ==
  IF IsAbsolute(value)
  THEN Throw("must be a relative path inside the repository")
  ELSE LET normalised == PathNormalize(value)
       IN IF StartsWith(normalised, DotDot)
          THEN Throw("must not traverse outside of the repository")
          ELSE Return(normalised)

(***************************************************************************)
(* parseInteger.  A bound is a record: has says whether the option is set. *)
(***************************************************************************)
NoBound == [has |-> FALSE, n |-> 0]

Bound(n) == [has |-> TRUE, n |-> n]

parseIntegerNoMin(value, min, max, allowZero) ==
  LET parsed == NumberParseInt(value)
  IN IF ~parsed.finite THEN Throw("must be a valid integer")
     ELSE IF ~allowZero /\ parsed.n = 0 THEN Throw("cannot be zero")
     ELSE IF max.has /\ parsed.n > max.n THEN Throw("must be <= max")
     ELSE Return(parsed.n)

parseInteger(value, min, max, allowZero) ==
  LET parsed == NumberParseInt(value)
  IN IF ~parsed.finite THEN Throw("must be a valid integer")
     ELSE IF ~allowZero /\ parsed.n = 0 THEN Throw("cannot be zero")
     ELSE IF min.has /\ parsed.n < min.n THEN Throw("must be >= min")
     ELSE IF max.has /\ parsed.n > max.n THEN Throw("must be <= max")
     ELSE Return(parsed.n)

(***************************************************************************)
(* new URL(input) and url.toString(), for inputs of the form               *)
(*   scheme ":" slashes host [":" port] path                               *)
(* over lower-case letters, digits, ":" and "/" (no user info, query or    *)
(* fragment).  An input without a scheme has no base to resolve against    *)
(* and fails to parse.                                                     *)
(***************************************************************************)
Letters ==
  {"a", "b", "c", "d", "e", "f", "g", "h", "i", "j", "k", "l", "m",
   "n", "o", "p", "q", "r", "s", "t", "u", "v", "w", "x", "y", "z"}

S_http == <<"h", "t", "t", "p">>
S_https == <<"h", "t", "t", "p", "s">>
S_ws == <<"w", "s">>
S_wss == <<"w", "s", "s">>
S_ftp == <<"f", "t", "p">>

SpecialSchemes == {S_http, S_https, S_ws, S_wss, S_ftp}

\* the port a special scheme implies
SchemeDefaultPort(scheme) ==
  IF scheme \in {S_http, S_ws} THEN 80
  ELSE IF scheme \in {S_https, S_wss} THEN 443
  ELSE 21

IndexOf(s, c) ==
  IF \E i \in 1..Len(s) : s[i] = c
  THEN CHOOSE i \in 1..Len(s) : s[i] = c /\ \A k \in 1..(i - 1) : s[k] # c
  ELSE 0

RECURSIVE StripLeadingSlashes(_)
StripLeadingSlashes(s) ==
  IF s # <<>> /\ Head(s) = "/" THEN StripLeadingSlashes(Tail(s)) ELSE s

UrlFailure == [ok |-> FALSE, scheme |-> <<>>, host |-> <<>>, port |-> -1,
               path |-> <<>>, special |-> FALSE]

\* removal of "." and ".." segments from the path of a special URL; a dot
\* segment in last position leaves an empty last segment
RECURSIVE UrlPathSegments(_, _)
UrlPathSegments(segs, res) ==
  IF segs = <<>> THEN res
  ELSE LET seg == Head(segs)
           rest == Tail(segs)
           popped == IF res = <<>> THEN res ELSE SubSeq(res, 1, Len(res) - 1)
       IN IF seg = DotDot
          THEN UrlPathSegments(rest, IF rest = <<>> THEN Append(popped, <<>>) ELSE popped)
          ELSE IF seg = <<".">>
          THEN UrlPathSegments(rest, IF rest = <<>> THEN Append(res, <<>>) ELSE res)
          ELSE UrlPathSegments(rest, Append(res, seg))

UrlPath(raw) ==
  IF raw = <<>> THEN <<"/">>
  ELSE <<"/">> \o JoinWith(UrlPathSegments(Split(Tail(raw), "/"), <<>>), "/")

ParseSpecialUrl(scheme, rest) ==
  LET afterSlashes == StripLeadingSlashes(rest)
      slash == IndexOf(afterSlashes, "/")
      authority == IF slash = 0 THEN afterSlashes ELSE SubSeq(afterSlashes, 1, slash - 1)
      rawPath == IF slash = 0 THEN <<>> ELSE SubSeq(afterSlashes, slash, Len(afterSlashes))
      colon == IndexOf(authority, ":")
      host == IF colon = 0 THEN authority ELSE SubSeq(authority, 1, colon - 1)
      portStr == IF colon = 0 THEN <<>> ELSE SubSeq(authority, colon + 1, Len(authority))
      portNum == DigitsValue(portStr, 0)
  IN IF host = <<>> \/ \E i \in 1..Len(host) : host[i] \notin Letters THEN UrlFailure
     ELSE IF \E i \in 1..Len(portStr) : ~IsDigit(portStr[i]) THEN UrlFailure
     ELSE IF portStr # <<>> /\ portNum > 65535 THEN UrlFailure
     ELSE [ok |-> TRUE, scheme |-> scheme, host |-> host,
           port |-> IF portStr = <<>> \/ portNum = SchemeDefaultPort(scheme)
                    THEN -1 ELSE portNum,
           path |-> UrlPath(rawPath), special |-> TRUE]

\* new URL(input), without a base
ParseUrl(input) ==
  LET colon == IndexOf(input, ":")
      scheme == SubSeq(input, 1, colon - 1)
      rest == SubSeq(input, colon + 1, Len(input))
  IN IF colon <= 1 \/ \E i \in 1..Len(scheme) : scheme[i] \notin Letters THEN UrlFailure
     ELSE IF scheme \in SpecialSchemes THEN ParseSpecialUrl(scheme, rest)
     ELSE [ok |-> TRUE, scheme |-> scheme, host |-> <<>>, port |-> -1,
           path |-> rest, special |-> FALSE]

\* url.protocol
UrlProtocol(url) == url.scheme \o <<":">>

\* url.toString(): the default port of the scheme is not written
UrlToString(url) ==
  IF url.special
  THEN url.scheme \o <<":", "/", "/">> \o url.host
       \o (IF url.port = -1 THEN <<>> ELSE <<":">> \o NatToString(url.port))
       \o url.path
  ELSE url.scheme \o <<":">> \o url.path

(***************************************************************************)
(* normaliseUrl.  The whitelist is a set of protocols; the empty set is    *)
(* "no whitelist given".  Whatever the try block throws, the parse failure *)
(* or the whitelist error, is caught by the same handler.                  *)
(***************************************************************************)
ProtocolWhitelist == {S_ws \o <<":">>, S_wss \o <<":">>}

NormaliseUrlTry(trimmed, protocolWhitelist) ==
  LET url == ParseUrl(trimmed)
  IN IF ~url.ok THEN Throw("Invalid URL")
     ELSE IF protocolWhitelist # {} /\ UrlProtocol(url) \notin protocolWhitelist
     THEN Throw("must use one of the following protocols")
     ELSE Return(StripOneTrailingSlash(UrlToString(url)))

normaliseUrl(value, protocolWhitelist) ==
  LET trimmed == Trim(value)
      attempt == NormaliseUrlTry(trimmed, protocolWhitelist)
  IN IF ~attempt.threw THEN attempt
     ELSE IF StartsWith(trimmed, <<"/">>) THEN Return(StripOneTrailingSlash(trimmed))
     ELSE Throw("must be a valid absolute URL or start with '/'")

(***************************************************************************)
(* buildServerConfig: the validations, in the order of the code.           *)
(***************************************************************************)
RootDir == <<"/", "r">>

S_assets == <<"a", "s", "s", "e", "t", "s">>
S_collections == <<"c", "o", "l", "l", "e", "c", "t", "i", "o", "n", "s">>
S_localhost == <<"l", "o", "c", "a", "l", "h", "o", "s", "t">>

DefaultPort == <<"3", "0", "0", "0">>
DefaultSaveInterval == <<"6", "0">>
DefaultMaxUploadSize == <<"1", "2">>
MinPort == 1
MaxPort == 65535
MinSaveInterval == 0
MinMaxUploadSize == 1

\* `${scheme}://localhost:${port}/${leaf}`
LocalhostUrlFixedPort(scheme, port, leaf) ==
  scheme \o <<":", "/", "/">> \o S_localhost \o <<":">> \o DefaultPort \o <<"/">> \o leaf

LocalhostUrl(scheme, port, leaf) ==
  scheme \o <<":", "/", "/">> \o S_localhost \o <<":">> \o NumberToString(port)
    \o <<"/">> \o leaf

ValidationOrderSecretFirst ==
  <<JWT_SECRET, WORLD, PORT, SAVE_INTERVAL,
    PUBLIC_ASSETS_URL, PUBLIC_API_URL, PUBLIC_WS_URL, PUBLIC_MAX_UPLOAD_SIZE>>

ValidationOrder ==
  <<WORLD, PORT, SAVE_INTERVAL, JWT_SECRET,
    PUBLIC_ASSETS_URL, PUBLIC_API_URL, PUBLIC_WS_URL, PUBLIC_MAX_UPLOAD_SIZE>>

\* the readEnv call made for each variable, given the port resolved before it
ReadVariable(key, e, port) ==
  IF key = WORLD THEN readEnv(e, WORLD, TRUE, NoDefault, FALSE)
  ELSE IF key = PORT THEN readEnv(e, PORT, FALSE, Default(DefaultPort), FALSE)
  ELSE IF key = SAVE_INTERVAL
  THEN readEnv(e, SAVE_INTERVAL, FALSE, Default(DefaultSaveInterval), FALSE)
  ELSE IF key = JWT_SECRET THEN readEnv(e, JWT_SECRET, TRUE, NoDefault, FALSE)
  ELSE IF key = PUBLIC_ASSETS_URL
  THEN readEnv(e, PUBLIC_ASSETS_URL, FALSE,
               Default(LocalhostUrl(S_http, port, S_assets)), FALSE)
  ELSE IF key = PUBLIC_API_URL
  THEN readEnv(e, PUBLIC_API_URL, FALSE,
               Default(LocalhostUrl(S_http, port, <<"a", "p", "i">>)), FALSE)
  ELSE IF key = PUBLIC_WS_URL
  THEN readEnv(e, PUBLIC_WS_URL, FALSE,
               Default(LocalhostUrl(S_ws, port, <<"w", "s">>)), FALSE)
  ELSE readEnv(e, PUBLIC_MAX_UPLOAD_SIZE, FALSE, Default(DefaultMaxUploadSize), FALSE)

\* the validator the value read for each variable is passed to
CheckVariable(key, v) ==
  IF key = WORLD THEN ensureRelativePath(v)
  ELSE IF key = PORT THEN parseInteger(v, Bound(MinPort), Bound(MaxPort), TRUE)
  ELSE IF key = SAVE_INTERVAL THEN parseInteger(v, Bound(MinSaveInterval), NoBound, TRUE)
  ELSE IF key = JWT_SECRET THEN Return(v)
  ELSE IF key \in {PUBLIC_ASSETS_URL, PUBLIC_API_URL} THEN normaliseUrl(v, {})
  ELSE IF key = PUBLIC_WS_URL THEN normaliseUrl(v, ProtocolWhitelist)
  ELSE parseInteger(v, Bound(MinMaxUploadSize), NoBound, TRUE)

\* validator(readEnv(...)): an error thrown by readEnv propagates
Validate(key, e, port) ==
  LET r == ReadVariable(key, e, port)
  IN IF r.threw THEN r ELSE CheckVariable(key, r.value)

\* the local constants of buildServerConfig before any is assigned
\* (a number where the code will hold a number)
NoLocals ==
  [k \in {ValidationOrder[i] : i \in 1..Len(ValidationOrder)} |->
     IF k \in {PORT, SAVE_INTERVAL, PUBLIC_MAX_UPLOAD_SIZE} THEN 0 ELSE Undefined]

(***************************************************************************)
(* buildPublicEnv and the frozen record.                                   *)
(***************************************************************************)
\* x || null, for x a string or undefined
OrNull(x) == IF x = Undefined \/ x = <<>> THEN Null ELSE x

buildPublicEnvRawWins(e, overrides) ==
  LET publicKeys == {k \in DOMAIN e : StartsWith(k, PublicPrefix)}
  IN [k \in publicKeys \cup DOMAIN overrides |->
        IF k \in publicKeys THEN e[k] ELSE overrides[k]]

buildPublicEnv(e, overrides) ==
  LET publicKeys == {k \in DOMAIN e : StartsWith(k, PublicPrefix)}
  IN [k \in publicKeys \cup DOMAIN overrides |->
        IF k \in DOMAIN overrides THEN overrides[k] ELSE e[k]]

FrozenRecordsShallow == {"top"}

\* the records Object.freeze is applied to
FrozenRecords == {"top", "world", "server", "auth", "public", "public.env", "livekit"}

\* lines 134-178: the optional variables, the public environment, the record
AssembleConfig(e, loc) ==
  LET worldName == loc[WORLD]
      worldDir == PathJoin(RootDir, worldName)
      adminCode == readEnv(e, ADMIN_CODE, FALSE, NoDefault, TRUE).value
      publicEnv ==
        buildPublicEnv(e,
          (PUBLIC_ASSETS_URL :> loc[PUBLIC_ASSETS_URL])
            @@ (PUBLIC_API_URL :> loc[PUBLIC_API_URL])
            @@ (PUBLIC_WS_URL :> loc[PUBLIC_WS_URL])
            @@ (PUBLIC_MAX_UPLOAD_SIZE :> NumberToString(loc[PUBLIC_MAX_UPLOAD_SIZE])))
  IN [rootDir |-> RootDir,
      world |-> [name |-> worldName,
                 dir |-> worldDir,
                 assetsDir |-> PathJoin(worldDir, S_assets),
                 collectionsDir |-> PathJoin(worldDir, S_collections)],
      server |-> [port |-> loc[PORT], saveInterval |-> loc[SAVE_INTERVAL]],
      auth |-> [jwtSecret |-> loc[JWT_SECRET],
                adminCode |-> OrNull(adminCode),
                hasAdminCode |-> adminCode # Undefined /\ Len(adminCode) > 0],
      public |-> [assetsUrl |-> loc[PUBLIC_ASSETS_URL],
                  apiUrl |-> loc[PUBLIC_API_URL],
                  wsUrl |-> loc[PUBLIC_WS_URL],
                  maxUploadSize |-> loc[PUBLIC_MAX_UPLOAD_SIZE],
                  env |-> publicEnv],
      livekit |-> [wsUrl |-> OrNull(readEnv(e, LIVEKIT_WS_URL, FALSE, NoDefault, TRUE).value),
                   apiKey |-> OrNull(readEnv(e, LIVEKIT_API_KEY, FALSE, NoDefault, TRUE).value),
                   apiSecret |->
                     OrNull(readEnv(e, LIVEKIT_API_SECRET, FALSE, NoDefault, TRUE).value)],
      commitHash |-> OrNull(readEnv(e, COMMIT_HASH, FALSE, NoDefault, TRUE).value)]

\* an object: its identity, its fields, and which of its records are frozen
NoConfig == [built |-> FALSE, ref |-> 0, value |-> <<>>, frozen |-> {}]

NewConfig(ref, value) ==
  [built |-> TRUE, ref |-> ref, value |-> value, frozen |-> FrozenRecords]

\* the whole of buildServerConfig on environment e
RECURSIVE ValidateFrom(_, _, _)
ValidateFrom(i, e, loc) ==
  IF i > Len(ValidationOrder) THEN Return(loc)
  ELSE LET key == ValidationOrder[i]
           r == Validate(key, e, loc[PORT])
       IN IF r.threw THEN r ELSE ValidateFrom(i + 1, e, [loc EXCEPT ![key] = r.value])

buildServerConfig(e) ==
  LET v == ValidateFrom(1, e, NoLocals)
  IN IF v.threw THEN v ELSE Return(AssembleConfig(e, v.value))

(***************************************************************************)
(* The environments a process may start in.                                *)
(***************************************************************************)
Strings(alphabet, n) == UNION {[1..m -> alphabet] : m \in 0..n}

With(e, k, v) == [x \in DOMAIN e \cup {k} |-> IF x = k THEN v ELSE e[x]]

Without(e, k) == [x \in DOMAIN e \ {k} |-> e[x]]

BaseEnv == (WORLD :> <<"a">>) @@ (JWT_SECRET :> <<"s">>)

WorldInputs ==
  Strings({"a", ".", "/"}, MaxPathLen)
    \cup {<<" ", "a", " ">>, <<" ">>, <<"t", "/", "m">>,
          <<".", ".", "/", ".", ".", "/", "s">>,
          <<"a", "/", ".", ".", "/", ".", ".", "/", "b">>}

IntChars == {"0", "1", "5", ".", "a", "-"}

NamedIntInputs ==
         {<<" ">>, <<" ", "7", " ">>, <<"8", "0">>, <<"0", "0", "8", "0">>,
          <<"4", "4", "3">>, <<"1", "2", ".", "5">>, <<"8", "0", "8", "0">>,
          <<"8", "0", "8", "0", "a", "b", "c">>, <<"a", "b", "c">>,
          <<"6", "5", "5", "3", "5">>, <<"6", "5", "5", "3", "6">>}

\* PORT ranges over every string up to the bound, the other two numbers over
\* the shorter ones
IntInputs(k) ==
  NamedIntInputs \cup Strings(IntChars, IF k = PORT THEN MaxIntLen ELSE MaxIntLen - 1)

UrlTails == Strings({"/", "a"}, MaxUrlTailLen)

RelativeUrlInputs ==
  UrlTails
    \cup {<<" ">>, <<" ", "/", "a", "/", " ">>, <<"/", "a", "/", "/">>, <<"x", ":", "a">>}

\* PUBLIC_API_URL takes the same path through the code as PUBLIC_ASSETS_URL
\* and ranges over the inputs without scheme and two with one
UrlInputs(k) ==
  IF k = PUBLIC_API_URL
  THEN RelativeUrlInputs
         \cup {S_http \o <<":", "/", "/", "h", "/">>, S_ws \o <<":", "/", "/", "h", "/", "/">>}
  ELSE RelativeUrlInputs
    \cup {scheme \o <<":", "/", "/", "h">> \o port \o t :
            scheme \in {S_http, S_https, S_ws, S_wss},
            port \in {<<>>, <<":", "8", "0">>, <<":", "4", "4", "3">>, <<":", "a">>},
            t \in UrlTails}

PUBLIC_FOO == PublicPrefix \o <<"F", "O", "O">>
PUBLICFOO == <<"P", "U", "B", "L", "I", "C", "F", "O", "O">>
XPUBLIC_FOO == <<"X">> \o PublicPrefix \o <<"F", "O", "O">>

ExtraKeys == {PUBLIC_FOO, PublicPrefix, PUBLICFOO, XPUBLIC_FOO, PUBLIC_MAX_UPLOAD_SIZE,
              PUBLIC_WS_URL}

ExtraValue(k) ==
  IF k = PUBLIC_MAX_UPLOAD_SIZE THEN <<" ", "5", " ">>
  ELSE IF k = PUBLIC_WS_URL THEN <<"w", "s", "s", ":", "/", "/", "h", "/">>
  ELSE IF k = PublicPrefix THEN <<>>
  ELSE <<" ", "v", " ">>

OptionalKeys == {ADMIN_CODE, COMMIT_HASH, LIVEKIT_WS_URL, LIVEKIT_API_KEY, LIVEKIT_API_SECRET}

\* an input each validation rejects
BadInput(k) ==
  IF k = WORLD THEN <<"/", "a">>
  ELSE IF k = JWT_SECRET THEN <<" ">>
  ELSE IF k \in {PORT, SAVE_INTERVAL, PUBLIC_MAX_UPLOAD_SIZE} THEN <<"-", "1">>
  ELSE <<"a">>

Overlay(e, f) == [x \in DOMAIN e \cup DOMAIN f |-> IF x \in DOMAIN f THEN f[x] ELSE e[x]]

OptionalValue(k) == IF k = ADMIN_CODE THEN <<>> ELSE <<"x">>

BootEnvs ==
  {With(BaseEnv, WORLD, w) : w \in WorldInputs}
    \cup UNION {{With(BaseEnv, k, v) : v \in IntInputs(k)} :
                   k \in {PORT, SAVE_INTERVAL, PUBLIC_MAX_UPLOAD_SIZE}}
    \cup UNION {{With(BaseEnv, k, v) : v \in UrlInputs(k)} :
                   k \in {PUBLIC_ASSETS_URL, PUBLIC_API_URL, PUBLIC_WS_URL}}
    \cup {Overlay(BaseEnv, [k \in ks |-> ExtraValue(k)]) : ks \in SUBSET ExtraKeys}
    \cup {Overlay(BaseEnv, [k \in ks |-> OptionalValue(k)]) : ks \in SUBSET OptionalKeys}
    \cup {Overlay(BaseEnv, [k \in ks |-> BadInput(k)]) :
            ks \in SUBSET {ValidationOrder[i] : i \in 1..Len(ValidationOrder)}}
    \cup {Without(BaseEnv, k) : k \in {WORLD, JWT_SECRET}}
    \cup {With(BaseEnv, JWT_SECRET, v) : v \in {<<>>, <<" ", "s", " ">>}}
    \cup {With(BaseEnv, WORLD, <<>>)}

\* writes to process.env after start-up
EnvEdits ==
  {[key |-> PORT, value |-> <<"8", "1">>],
   [key |-> PUBLIC_FOO, value |-> <<"z">>]}

(***************************************************************************)
(* Attempts to change the configuration record after construction.         *)
(***************************************************************************)
Mutations ==
  <<[target |-> "top", op |-> "delete", field |-> "rootDir", value |-> <<>>],
    [target |-> "world", op |-> "assign", field |-> "name", value |-> <<".", ".">>],
    [target |-> "server", op |-> "assign", field |-> "port", value |-> 0],
    [target |-> "auth", op |-> "assign", field |-> "jwtSecret", value |-> <<>>],
    [target |-> "public", op |-> "add", field |-> "extra", value |-> 0],
    [target |-> "public.env", op |-> "assign", field |-> PUBLIC_WS_URL, value |-> <<>>],
    [target |-> "public.env", op |-> "delete", field |-> PUBLIC_API_URL, value |-> <<>>],
    [target |-> "livekit", op |-> "add", field |-> "extra", value |-> <<"x">>]>>

\* the record after the operation, were it allowed
Changed(rec, m) ==
  IF m.op = "delete" THEN [k \in DOMAIN rec \ {m.field} |-> rec[k]]
  ELSE [k \in DOMAIN rec \cup {m.field} |-> IF k = m.field THEN m.value ELSE rec[k]]

\* an assignment, addition or deletion on a frozen record changes nothing
TryMutate(cfg, m) ==
  IF m.target \in cfg.frozen THEN cfg
  ELSE IF m.target = "top" THEN [cfg EXCEPT !.value = Changed(@, m)]
  ELSE IF m.target = "world" THEN [cfg EXCEPT !.value.world = Changed(@, m)]
  ELSE IF m.target = "server" THEN [cfg EXCEPT !.value.server = Changed(@, m)]
  ELSE IF m.target = "auth" THEN [cfg EXCEPT !.value.auth = Changed(@, m)]
  ELSE IF m.target = "public" THEN [cfg EXCEPT !.value.public = Changed(@, m)]
  ELSE IF m.target = "public.env" THEN [cfg EXCEPT !.value.public.env = Changed(@, m)]
  ELSE [cfg EXCEPT !.value.livekit = Changed(@, m)]

(***************************************************************************)
(* The process.                                                            *)
(***************************************************************************)
VARIABLES
  env,          \* process.env
  bootEnv,      \* process.env when the process started
  pc,           \* "validating", "assembling", "built" or "failed"
  step,         \* index in ValidationOrder of the next validation
  locals,       \* the constants of buildServerConfig resolved so far
  validated,    \* the variables validated so far, in order
  error,        \* the error that ended start-up
  serverConfig, \* the module-level constant
  builtConfig,  \* serverConfig as it was when construction finished
  firstRead,    \* what the first call of getServerConfig returned
  lastRead,     \* what the latest call of getServerConfig returned
  reads,        \* number of calls of getServerConfig
  lastOp,       \* the latest operation after construction
  envChanges    \* number of writes to process.env after start-up

vars == <<env, bootEnv, pc, step, locals, validated, error, serverConfig, builtConfig,
          firstRead, lastRead, reads, lastOp, envChanges>>

NoError == [key |-> <<>>, kind |-> "none"]

Init ==
  /\ env \in BootEnvs
  /\ bootEnv = env
  /\ pc = "validating"
  /\ step = 1
  /\ locals = NoLocals
  /\ validated = <<>>
  /\ error = NoError
  /\ serverConfig = NoConfig
  /\ builtConfig = NoConfig
  /\ firstRead = NoConfig
  /\ lastRead = NoConfig
  /\ reads = 0
  /\ lastOp = "none"
  /\ envChanges = 0

\* lines 99-132: one validation; a throw ends construction and start-up
ValidateNext ==
  /\ pc = "validating"
  /\ LET key == ValidationOrder[step]
         r == Validate(key, env, locals[PORT])
     IN /\ validated' = Append(validated, key)
        /\ IF r.threw
           THEN /\ pc' = "failed"
                /\ error' = [key |-> key, kind |-> r.kind]
                /\ UNCHANGED <<step, locals>>
           ELSE /\ locals' = [locals EXCEPT ![key] = r.value]
                /\ step' = step + 1
                /\ pc' = IF step = Len(ValidationOrder) THEN "assembling" ELSE "validating"
                /\ UNCHANGED error
  /\ UNCHANGED <<env, bootEnv, serverConfig, builtConfig, firstRead, lastRead, reads,
                 lastOp, envChanges>>

\* lines 134-181: the record is assembled, frozen and bound to serverConfig
Assemble ==
  /\ pc = "assembling"
  /\ serverConfig' = NewConfig(1, AssembleConfig(env, locals))
  /\ builtConfig' = serverConfig'
  /\ pc' = "built"
  /\ UNCHANGED <<env, bootEnv, step, locals, validated, error, firstRead, lastRead, reads,
                 lastOp, envChanges>>

getServerConfigRebuild ==
  LET r == buildServerConfig(env)
  IN IF r.threw THEN serverConfig ELSE NewConfig(serverConfig.ref + 1, r.value)

getServerConfig == serverConfig

\* a caller reads the configuration
GetServerConfig ==
  /\ pc = "built"
  /\ reads < MaxReads
  /\ lastRead' = getServerConfig
  /\ firstRead' = IF reads = 0 THEN lastRead' ELSE firstRead
  /\ reads' = reads + 1
  /\ lastOp' = "read"
  /\ UNCHANGED <<env, bootEnv, pc, step, locals, validated, error, serverConfig,
                 builtConfig, envChanges>>

\* a caller tries to assign, add or delete a field of the configuration
MutateAttempt ==
  /\ pc = "built"
  /\ \E i \in 1..Len(Mutations) : serverConfig' = TryMutate(serverConfig, Mutations[i])
  /\ lastOp' = "mutate"
  /\ UNCHANGED <<env, bootEnv, pc, step, locals, validated, error, builtConfig,
                 firstRead, lastRead, reads, envChanges>>

\* the process environment is written after start-up
EnvChange ==
  /\ pc = "built"
  /\ envChanges < MaxEnvChanges
  /\ \E ed \in EnvEdits : env' = With(env, ed.key, ed.value)
  /\ envChanges' = envChanges + 1
  /\ lastOp' = "env"
  /\ UNCHANGED <<bootEnv, pc, step, locals, validated, error, serverConfig, builtConfig,
                 firstRead, lastRead, reads>>

Next == ValidateNext \/ Assemble \/ GetServerConfig \/ MutateAttempt \/ EnvChange

Spec == Init /\ [][Next]_vars

(***************************************************************************)
(* Properties.                                                             *)
(***************************************************************************)
Built == pc = "built"

Config == serverConfig.value

\* unset, or nothing but white space
BlankAtBoot(k) ==
  k \notin DOMAIN bootEnv \/ \A i \in 1..Len(bootEnv[k]) : IsWhite(bootEnv[k][i])

\* C1: once the configuration is built, every call of getServerConfig
\* returns the object the first call returned, the same by reference and by
\* value, whatever was written to the environment since; the configuration
\* is never rebuilt and never goes back to unbuilt.
C1_EveryReadReturnsTheFirstObject ==
  /\ reads > 0 =>
       /\ lastRead.ref = firstRead.ref
       /\ lastRead.value = firstRead.value
       /\ firstRead.ref = builtConfig.ref
       /\ firstRead.value = builtConfig.value
  /\ builtConfig.built => Built /\ serverConfig.built /\ serverConfig.ref = builtConfig.ref

C1_ReadAfterEnvironmentChange ==
  Built /\ reads >= 2 /\ lastOp = "read" /\ envChanges > 0 /\ env # bootEnv

\* C2: after construction, an attempt to assign, add or delete a field of the
\* top-level record or of any sub-record leaves every field as it was when
\* construction finished.
C2_MutationAttemptChangesNothing ==
  Built => /\ Config = builtConfig.value
           /\ Config.world = builtConfig.value.world
           /\ Config.server = builtConfig.value.server
           /\ Config.auth = builtConfig.value.auth
           /\ Config.public = builtConfig.value.public
           /\ Config.public.env = builtConfig.value.public.env
           /\ Config.livekit = builtConfig.value.livekit

C2_MutationAttempted == Built /\ lastOp = "mutate"

\* C3: construction either throws, and then no configuration is observable,
\* or yields a configuration whose jwtSecret is not blank, whose port is in
\* [1, 65535], whose saveInterval is >= 0 and whose maxUploadSize is >= 1; a
\* missing or blank WORLD or JWT_SECRET never yields a configuration.
C3_BuiltConfigIsValid ==
  /\ Built =>
       /\ Len(Config.auth.jwtSecret) > 0
       /\ \E i \in 1..Len(Config.auth.jwtSecret) : ~IsWhite(Config.auth.jwtSecret[i])
       /\ Config.server.port \in 1..65535
       /\ Config.server.saveInterval \in Int /\ Config.server.saveInterval >= 0
       /\ Config.public.maxUploadSize \in Int /\ Config.public.maxUploadSize >= 1
  /\ ~Built => serverConfig = NoConfig /\ reads = 0 /\ lastRead = NoConfig
  /\ (BlankAtBoot(WORLD) \/ BlankAtBoot(JWT_SECRET)) => pc \notin {"assembling", "built"}

C3_BuiltFromExplicitNumbers ==
  /\ Built /\ reads > 0
  /\ {PORT, SAVE_INTERVAL, PUBLIC_MAX_UPLOAD_SIZE} \cap DOMAIN bootEnv # {}

\* C4: construction fails if WORLD is an absolute path or its normalised form
\* begins with a ".." segment; otherwise it proceeds, world.name is the
\* normalised relative path, never absolute and without ".." segment, and
\* world.dir, world.assetsDir and world.collectionsDir are <root>/<name>,
\* <root>/<name>/assets and <root>/<name>/collections.
C4_WorldRejectedExactlyOnTraversal ==
  (~BlankAtBoot(WORLD) /\ Len(validated) >= 1) =>
    LET w == Trim(bootEnv[WORLD])
        name == PathNormalize(w)
        traverses == IsAbsolute(w) \/ Split(name, "/")[1] = DotDot
    IN IF traverses
       THEN pc = "failed" /\ error.key = WORLD
       ELSE /\ error.key # WORLD
            /\ Built =>
                 /\ Config.world.name = name
                 /\ ~IsAbsolute(Config.world.name)
                 /\ \A i \in 1..Len(Split(name, "/")) : Split(name, "/")[i] # DotDot
                 /\ Config.world.dir = PathJoin(RootDir, name)
                 /\ Config.world.assetsDir = PathJoin(PathJoin(RootDir, name), S_assets)
                 /\ Config.world.collectionsDir =
                      PathJoin(PathJoin(RootDir, name), S_collections)

\* an optional sign followed by decimal digits and nothing else
IsBase10Integer(s) ==
  LET body == IF s # <<>> /\ Head(s) \in {"-", "+"} THEN Tail(s) ELSE s
  IN body # <<>> /\ \A i \in 1..Len(body) : IsDigit(body[i])

\* C5: PORT, SAVE_INTERVAL or PUBLIC_MAX_UPLOAD_SIZE set to a string that is
\* not the base-10 representation of an integer (non-numeric, fractional, or
\* with trailing non-digit characters) makes construction fail.
C5_NonIntegerInputFails ==
  \A k \in {PORT, SAVE_INTERVAL, PUBLIC_MAX_UPLOAD_SIZE} :
    (~BlankAtBoot(k) /\ ~IsBase10Integer(Trim(bootEnv[k]))) =>
      pc \notin {"assembling", "built"}

\* an absolute URL or a root-relative path, in both cases without trailing slash
IsNormalisedUrl(u, whitelist) ==
  /\ ~EndsWith(u, <<"/">>)
  /\ \/ StartsWith(u, <<"/">>)
     \/ ParseUrl(u).ok /\ (whitelist = {} \/ UrlProtocol(ParseUrl(u)) \in whitelist)

\* C6: in every built configuration public.assetsUrl, public.apiUrl and
\* public.wsUrl are each an absolute URL (wsUrl: with scheme ws: or wss:) or a
\* root-relative path beginning with "/", and none ends with "/".
C6_PublicUrlsAreNormalised ==
  Built => /\ IsNormalisedUrl(Config.public.assetsUrl, {})
           /\ IsNormalisedUrl(Config.public.apiUrl, {})
           /\ IsNormalisedUrl(Config.public.wsUrl, ProtocolWhitelist)

\* the port the configuration is to carry: PORT, or 3000 when PORT is not set
PortAtBoot == IF BlankAtBoot(PORT) THEN 3000 ELSE DigitsValue(Trim(bootEnv[PORT]), 0)

DefaultUrlsApply ==
  /\ Built
  /\ BlankAtBoot(PUBLIC_ASSETS_URL) /\ BlankAtBoot(PUBLIC_API_URL) /\ BlankAtBoot(PUBLIC_WS_URL)
  /\ BlankAtBoot(PORT) \/ \A i \in 1..Len(Trim(bootEnv[PORT])) : IsDigit(Trim(bootEnv[PORT])[i])

UrlWithPort(scheme, p, leaf) ==
  scheme \o <<":", "/", "/", "l", "o", "c", "a", "l", "h", "o", "s", "t", ":">>
    \o NatToString(p) \o <<"/">> \o leaf

UrlWithoutPort(scheme, leaf) ==
  scheme \o <<":", "/", "/", "l", "o", "c", "a", "l", "h", "o", "s", "t", "/">> \o leaf

\* C7 as stated: for every valid PORT p (3000 when unset), with the three
\* public URL variables unset or blank, server.port = p and the public URLs
\* are http://localhost:<p>/assets, http://localhost:<p>/api and
\* ws://localhost:<p>/ws, for every such p, 80 included.
C7_DefaultUrlsEmbedEveryPort ==
  DefaultUrlsApply =>
    /\ Config.server.port = PortAtBoot
    /\ Config.public.assetsUrl = UrlWithPort(S_http, PortAtBoot, S_assets)
    /\ Config.public.apiUrl = UrlWithPort(S_http, PortAtBoot, <<"a", "p", "i">>)
    /\ Config.public.wsUrl = UrlWithPort(S_ws, PortAtBoot, <<"w", "s">>)

\* C7 amended: as above for every valid p other than 80; for p = 80, the
\* default port of http: and ws:, the URLs are written without the port:
\* http://localhost/assets, http://localhost/api and ws://localhost/ws.
C7_DefaultUrlsEmbedNonDefaultPort ==
  DefaultUrlsApply =>
    /\ Config.server.port = PortAtBoot
    /\ IF PortAtBoot = 80
       THEN /\ Config.public.assetsUrl = UrlWithoutPort(S_http, S_assets)
            /\ Config.public.apiUrl = UrlWithoutPort(S_http, <<"a", "p", "i">>)
            /\ Config.public.wsUrl = UrlWithoutPort(S_ws, <<"w", "s">>)
       ELSE /\ Config.public.assetsUrl = UrlWithPort(S_http, PortAtBoot, S_assets)
            /\ Config.public.apiUrl = UrlWithPort(S_http, PortAtBoot, <<"a", "p", "i">>)
            /\ Config.public.wsUrl = UrlWithPort(S_ws, PortAtBoot, <<"w", "s">>)

C7_DefaultUrlsOnPort80 == DefaultUrlsApply /\ Config.server.port = 80

DerivedPublicKeys ==
  {PUBLIC_ASSETS_URL, PUBLIC_API_URL, PUBLIC_WS_URL, PUBLIC_MAX_UPLOAD_SIZE}

\* C8: in every built configuration the keys of public.env are the names of
\* the environment beginning with PUBLIC_ together with the four derived
\* names; every value is a string; the derived names carry the validated
\* URLs and the decimal string of maxUploadSize, whatever the raw variable
\* of that name holds; every other key carries its raw value verbatim.
C8_PublicEnvContents ==
  Built =>
    LET publicEnv == Config.public.env
    IN /\ DOMAIN publicEnv =
            {k \in DOMAIN bootEnv : StartsWith(k, PublicPrefix)} \cup DerivedPublicKeys
       /\ \A k \in DOMAIN publicEnv : publicEnv[k] \in Seq(STRING)
       /\ publicEnv[PUBLIC_ASSETS_URL] = Config.public.assetsUrl
       /\ publicEnv[PUBLIC_API_URL] = Config.public.apiUrl
       /\ publicEnv[PUBLIC_WS_URL] = Config.public.wsUrl
       /\ publicEnv[PUBLIC_MAX_UPLOAD_SIZE] = NatToString(Config.public.maxUploadSize)
       /\ \A k \in DOMAIN publicEnv \ DerivedPublicKeys : publicEnv[k] = bootEnv[k]

C8_RawAndDerivedKeysTogether ==
  /\ Built
  /\ {PUBLIC_FOO, PUBLICFOO, PUBLIC_MAX_UPLOAD_SIZE, PUBLIC_WS_URL} \subseteq DOMAIN bootEnv
  /\ bootEnv[PUBLIC_MAX_UPLOAD_SIZE] # Config.public.env[PUBLIC_MAX_UPLOAD_SIZE]

\* the constraint variable k violates at boot, in the words of the error
ViolatedConstraint(k) ==
  IF k \in {WORLD, JWT_SECRET} /\ k \notin DOMAIN bootEnv THEN "is required"
  ELSE IF k \in {WORLD, JWT_SECRET} /\ BlankAtBoot(k) THEN "cannot be empty"
  ELSE IF k = WORLD
  THEN IF IsAbsolute(Trim(bootEnv[k]))
       THEN "must be a relative path inside the repository"
       ELSE "must not traverse outside of the repository"
  ELSE IF k \in {PORT, SAVE_INTERVAL, PUBLIC_MAX_UPLOAD_SIZE}
  THEN IF ~NumberParseInt(bootEnv[k]).finite THEN "must be a valid integer"
       ELSE IF k = PORT /\ NumberParseInt(bootEnv[k]).n > 65535 THEN "must be <= max"
       ELSE "must be >= min"
  ELSE IF k = PUBLIC_WS_URL /\ ParseUrl(Trim(bootEnv[k])).ok
  THEN "must use one of the following protocols"
  ELSE "must be a valid absolute URL or start with '/'"

\* C9: when a validation fails, the error names the offending variable and
\* the constraint that was violated; in particular PUBLIC_WS_URL set to an
\* absolute URL whose scheme is neither ws: nor wss: fails with the
\* disallowed-protocol error.
C9_ErrorNamesViolatedConstraint ==
  pc = "failed" =>
    /\ error.key = validated[Len(validated)]
    /\ error.kind = ViolatedConstraint(error.key)

ClaimedOrder ==
  <<WORLD, PORT, SAVE_INTERVAL, JWT_SECRET,
    PUBLIC_ASSETS_URL, PUBLIC_API_URL, PUBLIC_WS_URL, PUBLIC_MAX_UPLOAD_SIZE>>

\* the variables whose value at boot is rejected when validated alone
InvalidAtBoot == {k \in DOMAIN NoLocals : Validate(k, bootEnv, 3000).threw}

\* C10: validation runs in the order WORLD, PORT, SAVE_INTERVAL, JWT_SECRET,
\* PUBLIC_ASSETS_URL, PUBLIC_API_URL, PUBLIC_WS_URL, PUBLIC_MAX_UPLOAD_SIZE
\* and stops at the first failure: the error is the one of the earliest
\* invalid variable, no later variable is validated, and no invalid variable
\* is let through with a fallback.
C10_EarliestInvalidVariableFails ==
  LET invalid == InvalidAtBoot
  IN /\ Len(validated) <= Len(ClaimedOrder)
     /\ \A i \in 1..Len(validated) : validated[i] = ClaimedOrder[i]
     /\ \A i \in 1..(Len(validated) - 1) : validated[i] \notin invalid
     /\ pc = "failed" =>
          /\ error.key = validated[Len(validated)]
          /\ error.key \in invalid
          /\ serverConfig = NoConfig
     /\ pc \in {"assembling", "built"} => invalid = {}
     /\ (pc = "validating" /\ validated # <<>>) => validated[Len(validated)] \notin invalid

C10_FailedWithSeveralInvalid ==
  /\ pc = "failed"
  /\ Cardinality(InvalidAtBoot) >= 3
  /\ Len(validated) >= 2

====
